---- MODULE Spec2Model ----
(***************************************************************************)
(* The storage subsystem of FIRS: CacheManager (src/storage/               *)
(* cache_manager.py), TempStorage (src/storage/temp_storage.py), the       *)
(* store path of VectorDatabase (src/storage/vector_db.py) and the         *)
(* StorageManager facade (src/storage/storage_manager.py).                 *)
(*                                                                         *)
(* Time is the wall clock in whole seconds.  Files carry their mtime; a    *)
(* file whose dump failed after open() exists, has a new mtime and cannot  *)
(* be deserialized ("corrupt").                                            *)
(***************************************************************************)
EXTENDS Integers, Sequences, FiniteSets, TLC

VARIABLES
    now,                    \* datetime.now(), in seconds
    cache,                  \* cache/<cache_type>/<key>.cache : path -> file
    temp,                   \* temp/<subdir>/*.json : set of files
    points,                 \* points upserted into the Qdrant collection
    enable_vector_storage,  \* StorageManager.enable_vector_storage
    vector_db,              \* StorageManager.vector_db is not None
    last,                   \* the call that has just returned, with its result
    nops,                   \* number of calls made so far
    threads                 \* the calls in progress in concurrent callers

vars == <<now, cache, temp, points, enable_vector_storage, vector_db, last, nops, threads>>

---------------------------------------------------------------------------
(* Bounds of the model *)

\* calls made in one behaviour
MaxOps == 2
\* one-second clock steps taken between two long waits
MaxSmallSteps == 1
\* long waits (of DefaultTTL seconds) in one behaviour
MaxLongWaits == 1

(* Program constants *)

\* default_ttl of CacheManager.__init__ and TempStorage.__init__
DefaultTTL == 600
\* the value None of an Optional[int] ttl / max_age argument
NoTTL == -1

---------------------------------------------------------------------------
(* Python values *)

None == [py_none |-> TRUE]
\* an ordinary payload
d1 == [price |-> 150]
\* the empty mapping {}
emptyDict == << >>
\* a payload holding a value json cannot encode natively (a datetime)
dt == [as_of |-> "datetime"]
\* what json.dump(default=str) followed by json.load makes of dt
dtJson == [as_of |-> "str"]

Data == {d1, emptyDict, dt}

\* reports: with both indexed parts, with financial_summary only, empty
repFull == [executive_summary |-> "s", financial_summary |-> d1, web_data |-> [title |-> "n"]]
repFin == [executive_summary |-> "s", financial_summary |-> d1]
Reports == {repFull, repFin, emptyDict}

\* Python truthiness of None and of mappings
Truthy(v) == v # None /\ DOMAIN v # {}

\* json.dump(x, default=str) then json.load
JsonRoundTrip(v) == IF v = dt THEN dtJson ELSE v

\* `ttl or self.default_ttl`
OrDefault(ttl) == IF ttl = NoTTL \/ ttl = 0 THEN DefaultTTL ELSE ttl

Tickers == {"RDS", "RDS_A"}
ApiNames == {"av", "av_news"}
Prompts == {"p"}
TTLs == {NoTTL, 0, 1}
\* the cache_ttl values get_or_fetch_data and get_or_generate_report are called with
CallTTLs == {NoTTL, 1}

\* the "_"-separated pieces of a name
Tokens(s) ==
    CASE s = "RDS" -> <<"RDS">>
      [] s = "RDS_A" -> <<"RDS", "A">>
      [] s = "av" -> <<"av">>
      [] s = "av_news" -> <<"av", "news">>

IsPrefix(p, s) == Len(p) <= Len(s) /\ SubSeq(s, 1, Len(p)) = p

\* outcome of open(path, 'w') followed by dump: written, open() raised,
\* or dump raised after open() truncated the file
IOOutcomes == {"ok", "open_fail", "dump_fail"}

---------------------------------------------------------------------------
(* CacheManager *)

CacheTypes == {"llm", "api", "reports"}

\* the fingerprints StorageManager builds, as json.dumps(sort_keys=True) /
\* str() renders them
ApiFingerprint(api_name, ticker) == <<"api", api_name, "params", "ticker", ticker>>
ReportFingerprint(ticker) == <<"ticker", ticker>>
LlmFingerprint(prompt) == <<prompt>>

Fingerprints(cache_type) ==
    CASE cache_type = "api" -> {ApiFingerprint(a, t) : a \in ApiNames, t \in Tickers}
      [] cache_type = "reports" -> {ReportFingerprint(t) : t \in Tickers}
      [] cache_type = "llm" -> {LlmFingerprint(p) : p \in Prompts}

\* md5 of the rendered fingerprint: distinct fingerprints, distinct keys
GenerateCacheKey(data) == <<"md5">> \o data

GetCachePath(cache_type, key) == <<cache_type, key>>

CachePaths ==
    {GetCachePath(ct, GenerateCacheKey(fp)) : ct \in {"api"}, fp \in Fingerprints("api")}
    \cup {GetCachePath(ct, GenerateCacheKey(fp)) : ct \in {"reports"}, fp \in Fingerprints("reports")}
    \cup {GetCachePath(ct, GenerateCacheKey(fp)) : ct \in {"llm"}, fp \in Fingerprints("llm")}

NoFile == [state |-> "missing"]

\* _is_cache_valid with the age comparison turned round
IsCacheValidAgeInverted(c, t, cache_path, ttl) ==
    /\ c[cache_path].state # "missing"
    /\ t - c[cache_path].mtime > ttl

IsCacheValid(c, t, cache_path, ttl) ==
    /\ c[cache_path].state # "missing"
    /\ t - c[cache_path].mtime < ttl

\* the value get_cached_response returns: pickle.load of the file, or None
GetCachedResponse(c, t, cache_type, data, ttl) ==
    LET cache_path == GetCachePath(cache_type, GenerateCacheKey(data))
    IN  IF IsCacheValid(c, t, cache_path, OrDefault(ttl))
        THEN IF c[cache_path].state = "ok"
             THEN c[cache_path].entry
             ELSE None
        ELSE None

\* cache_response that returns without writing the file
CacheResponseSkipsWrite(c, t, cache_type, data, response, io) == c

\* the cache directory after cache_response
CacheResponse(c, t, cache_type, data, response, io) ==
    LET cache_key == GenerateCacheKey(data)
        cache_path == GetCachePath(cache_type, cache_key)
        cache_entry == [response |-> response, cached_at |-> t,
                        cache_key |-> cache_key, cache_type |-> cache_type]
    IN  CASE io = "ok" ->
               [c EXCEPT ![cache_path] = [state |-> "ok", mtime |-> t, entry |-> cache_entry]]
          [] io = "dump_fail" ->
               [c EXCEPT ![cache_path] = [state |-> "corrupt", mtime |-> t]]
          [] io = "open_fail" -> c

\* the bool cache_response returns
CacheResponseResult(io) == io = "ok"

---------------------------------------------------------------------------
(* TempStorage *)

\* f"{ticker}_{api_name}_{timestamp}.json" and f"report_{ticker}_{timestamp}.json"
\* without the timestamp, which the file carries as its stamp
ApiFileName(ticker, api_name) == Tokens(ticker) \o Tokens(api_name)
ReportFileName(ticker) == <<"report">> \o Tokens(ticker)

\* with open(file_path, 'w') as f: json.dump(storage_data, f, ...)
\* the timestamp of the name has the resolution of the clock, so a second
\* write of the same name in the same second replaces the file
WriteTempFile(tmp, t, dir, name, content, io) ==
    LET rest == {f \in tmp : ~(f.dir = dir /\ f.name = name /\ f.stamp = t)}
    IN  CASE io = "ok" ->
               rest \cup {[dir |-> dir, name |-> name, stamp |-> t, mtime |-> t,
                           state |-> "ok", content |-> content]}
          [] io = "dump_fail" ->
               rest \cup {[dir |-> dir, name |-> name, stamp |-> t, mtime |-> t,
                           state |-> "corrupt"]}
          [] io = "open_fail" -> tmp

\* the temp directory after store_api_response
StoreApiResponse(tmp, t, ticker, api_name, data, ttl, io) ==
    WriteTempFile(tmp, t, "api_responses", ApiFileName(ticker, api_name),
                  [ticker |-> ticker, api_name |-> api_name, timestamp |-> t,
                   ttl |-> OrDefault(ttl), data |-> JsonRoundTrip(data)], io)

\* the temp directory after store_report
StoreReport(tmp, t, ticker, report_data, ttl, io) ==
    WriteTempFile(tmp, t, "reports", ReportFileName(ticker),
                  [ticker |-> ticker, timestamp |-> t,
                   ttl |-> OrDefault(ttl), report |-> JsonRoundTrip(report_data)], io)

\* store_api_response / store_report log and re-raise
StoreRaises(io) == io # "ok"

\* list(dir.glob(f"{prefix}_*.json"))
Glob(tmp, dir, prefix) == {f \in tmp : f.dir = dir /\ IsPrefix(prefix, f.name)}

\* max(files, key=st_mtime): any file of greatest mtime
LatestFiles(files) == {f \in files : \A g \in files : g.mtime <= f.mtime}

\* the expiry check and the load of the chosen file; json.load of a file
\* whose dump failed raises, which the caller turns into None
ReadTempFile(f, t, max_age, field) ==
    IF f.state # "ok"
    THEN None
    ELSE LET age_limit == IF max_age = NoTTL THEN f.content.ttl ELSE max_age
         IN  IF t - f.mtime > age_limit THEN None ELSE f.content[field]

\* the values get_api_response may return
GetApiResponseResults(tmp, t, ticker, api_name, max_age) ==
    LET files == Glob(tmp, "api_responses", ApiFileName(ticker, api_name))
    IN  IF files = {}
        THEN {None}
        ELSE {ReadTempFile(f, t, max_age, "data") : f \in LatestFiles(files)}

\* the values get_report may return
GetReportResults(tmp, t, ticker, max_age) ==
    LET files == Glob(tmp, "reports", ReportFileName(ticker))
    IN  IF files = {}
        THEN {None}
        ELSE {ReadTempFile(f, t, max_age, "report") : f \in LatestFiles(files)}

---------------------------------------------------------------------------
(* VectorDatabase *)

\* outcome of store_document: upserted, generate_embeddings returned None,
\* or the PUT of the point failed
VectorOutcomes == {"ok", "embed_fail", "upsert_fail"}

\* the collection after store_document (the fresh uuid is left out)
StoreDocument(pts, ticker, document_type, content, metadata, vout) ==
    IF vout = "ok"
    THEN pts \cup {[ticker |-> ticker, document_type |-> document_type,
                    content |-> content, metadata |-> metadata]}
    ELSE pts

\* the bool store_document returns
\* store_document that reports success whatever happened
StoreDocumentResultIgnoresFailure(vout) == TRUE

StoreDocumentResult(vout) == vout = "ok"

---------------------------------------------------------------------------
(* StorageManager *)

Idle == [op |-> "idle"]

\* the threads that call into the storage concurrently; a thread that is not
\* inside a call
Threads == {1, 2}
NotRunning == [pc |-> "idle"]
NotCalled == [not_called |-> TRUE]
Raises == [raises |-> TRUE]

\* a return that caches the value handed back when the fetch raised
FinishCachingFailure(call, c2, tmp2, pts2) ==
    /\ last' = [call EXCEPT !.pre = [cache |-> cache, temp |-> temp, points |-> points]]
    /\ cache' = IF call.fetch = [raises |-> TRUE]
                THEN IF call.op = "get_or_fetch_data"
                     THEN CacheResponse(c2, now, "api",
                                        ApiFingerprint(call.api_name, call.ticker), call.ret, "ok")
                     ELSE CacheResponse(c2, now, "reports",
                                        ReportFingerprint(call.ticker), call.ret, "ok")
                ELSE c2
    /\ temp' = tmp2
    /\ points' = pts2
    /\ nops' = nops + 1
    /\ UNCHANGED <<now, enable_vector_storage, vector_db, threads>>

\* a call returns: its record becomes `last`, the stores take their new contents
Finish(call, c2, tmp2, pts2) ==
    /\ last' = [call EXCEPT !.pre = [cache |-> cache, temp |-> temp, points |-> points]]
    /\ cache' = c2
    /\ temp' = tmp2
    /\ points' = pts2
    /\ nops' = nops + 1
    /\ UNCHANGED <<now, enable_vector_storage, vector_db, threads>>

CanCall == nops < MaxOps /\ last = Idle

FetchError(ticker) == [error |-> "Failed to fetch data", ticker |-> ticker]

GetOrFetchData ==
    /\ CanCall
    /\ \E ticker \in Tickers, api_name \in ApiNames, force_refresh \in BOOLEAN, cache_ttl \in CallTTLs :
        LET fp == ApiFingerprint(api_name, ticker)
            cached_data == IF force_refresh THEN None
                           ELSE GetCachedResponse(cache, now, "api", fp, cache_ttl)
            call == [op |-> "get_or_fetch_data", ticker |-> ticker, api_name |-> api_name,
                     force_refresh |-> force_refresh, cache_ttl |-> cache_ttl, at |-> now,
                     cached_data |-> cached_data, temp_data |-> NotCalled,
                     fetch |-> NotCalled, cache_io |-> "none", temp_io |-> "none",
                     vector |-> << >>, vector_ret |-> << >>,
                     trace |-> <<>>, ret |-> None, pre |-> None]
            tr0 == IF force_refresh THEN <<>> ELSE <<"cache_get">>
        IN  IF ~force_refresh /\ Truthy(cached_data)
            THEN Finish([call EXCEPT !.trace = tr0, !.ret = cached_data], cache, temp, points)
            ELSE \E temp_data \in GetApiResponseResults(temp, now, ticker, api_name, cache_ttl) :
                LET call1 == [call EXCEPT !.temp_data = temp_data]
                    tr1 == tr0 \o <<"temp_get">>
                    fallback == IF Truthy(temp_data) THEN temp_data ELSE FetchError(ticker)
                IN  IF Truthy(temp_data) /\ ~force_refresh
                    THEN \E cio \in IOOutcomes :
                            Finish([call1 EXCEPT !.cache_io = cio, !.ret = temp_data,
                                                 !.trace = tr1 \o <<"cache_put">>],
                                   CacheResponse(cache, now, "api", fp, temp_data, cio),
                                   temp, points)
                    ELSE \/ Finish([call1 EXCEPT !.fetch = Raises, !.ret = fallback,
                                                 !.trace = tr1 \o <<"fetch">>],
                                   cache, temp, points)
                         \/ \E fresh_data \in Data, cio \in IOOutcomes, tio \in IOOutcomes :
                            LET c2 == CacheResponse(cache, now, "api", fp, fresh_data, cio)
                                tmp2 == StoreApiResponse(temp, now, ticker, api_name,
                                                         fresh_data, cache_ttl, tio)
                                call2 == [call1 EXCEPT !.fetch = fresh_data, !.cache_io = cio,
                                                       !.temp_io = tio]
                                tr2 == tr1 \o <<"fetch", "cache_put", "temp_put">>
                            IN  IF StoreRaises(tio)
                                THEN Finish([call2 EXCEPT !.ret = fallback, !.trace = tr2],
                                            c2, tmp2, points)
                                ELSE IF enable_vector_storage /\ vector_db
                                     THEN \E vout \in VectorOutcomes :
                                            Finish([call2 EXCEPT !.vector = [financial_data |-> vout],
                                                        !.vector_ret = [financial_data |->
                                                                         StoreDocumentResult(vout)],
                                                        !.ret = fresh_data,
                                                        !.trace = tr2 \o <<"vector_store">>],
                                                   c2, tmp2,
                                                   StoreDocument(points, ticker, "financial_data",
                                                       fresh_data, [source |-> api_name], vout))
                                     ELSE Finish([call2 EXCEPT !.ret = fresh_data, !.trace = tr2],
                                                 c2, tmp2, points)

GenerateError(ticker) == [error |-> "Failed to generate report", ticker |-> ticker]

\* the sub-documents get_or_generate_report indexes after the full report
ReportParts(fresh_report) ==
    (IF "financial_summary" \in DOMAIN fresh_report THEN {"financial_data"} ELSE {})
    \cup (IF "web_data" \in DOMAIN fresh_report THEN {"news"} ELSE {})

\* the content indexed under a document type
ReportPartContent(fresh_report, document_type) ==
    CASE document_type = "report" -> fresh_report
      [] document_type = "financial_data" -> fresh_report.financial_summary
      [] document_type = "news" -> fresh_report.web_data

ReportPartMetadata(document_type) ==
    IF document_type = "report" THEN << >> ELSE [source |-> "comprehensive_report"]

\* store_report_data, then store_financial_data and store_news_data for the
\* parts present; vouts gives the outcome of each store_document
IndexReport(pts, ticker, fresh_report, vouts) ==
    LET p1 == StoreDocument(pts, ticker, "report",
                            ReportPartContent(fresh_report, "report"),
                            ReportPartMetadata("report"), vouts["report"])
        p2 == IF "financial_data" \in DOMAIN vouts
              THEN StoreDocument(p1, ticker, "financial_data",
                                 ReportPartContent(fresh_report, "financial_data"),
                                 ReportPartMetadata("financial_data"), vouts["financial_data"])
              ELSE p1
    IN  IF "news" \in DOMAIN vouts
        THEN StoreDocument(p2, ticker, "news",
                           ReportPartContent(fresh_report, "news"),
                           ReportPartMetadata("news"), vouts["news"])
        ELSE p2

\* the store_document calls made for a report, in order
IndexTrace(fresh_report) ==
    <<"vector_store_report">>
    \o (IF "financial_data" \in ReportParts(fresh_report) THEN <<"vector_store_financial_data">> ELSE <<>>)
    \o (IF "news" \in ReportParts(fresh_report) THEN <<"vector_store_news">> ELSE <<>>)

GetOrGenerateReport ==
    /\ CanCall
    /\ \E ticker \in Tickers, force_refresh \in BOOLEAN, cache_ttl \in CallTTLs :
        LET fp == ReportFingerprint(ticker)
            cached_report == IF force_refresh THEN None
                             ELSE GetCachedResponse(cache, now, "reports", fp, cache_ttl)
            call == [op |-> "get_or_generate_report", ticker |-> ticker, api_name |-> "",
                     force_refresh |-> force_refresh, cache_ttl |-> cache_ttl, at |-> now,
                     cached_data |-> cached_report, temp_data |-> NotCalled,
                     fetch |-> NotCalled, cache_io |-> "none", temp_io |-> "none",
                     vector |-> << >>, vector_ret |-> << >>,
                     trace |-> <<>>, ret |-> None, pre |-> None]
            tr0 == IF force_refresh THEN <<>> ELSE <<"cache_get">>
        IN  IF ~force_refresh /\ Truthy(cached_report)
            THEN Finish([call EXCEPT !.trace = tr0, !.ret = cached_report], cache, temp, points)
            ELSE \E temp_report \in GetReportResults(temp, now, ticker, cache_ttl) :
                LET call1 == [call EXCEPT !.temp_data = temp_report]
                    tr1 == tr0 \o <<"temp_get">>
                    fallback == IF Truthy(temp_report) THEN temp_report ELSE GenerateError(ticker)
                IN  IF Truthy(temp_report) /\ ~force_refresh
                    THEN \E cio \in IOOutcomes :
                            Finish([call1 EXCEPT !.cache_io = cio, !.ret = temp_report,
                                                 !.trace = tr1 \o <<"cache_put">>],
                                   CacheResponse(cache, now, "reports", fp, temp_report, cio),
                                   temp, points)
                    ELSE \/ Finish([call1 EXCEPT !.fetch = Raises, !.ret = fallback,
                                                 !.trace = tr1 \o <<"fetch">>],
                                   cache, temp, points)
                         \/ \E fresh_report \in Reports, cio \in IOOutcomes, tio \in IOOutcomes :
                            LET c2 == CacheResponse(cache, now, "reports", fp, fresh_report, cio)
                                tmp2 == StoreReport(temp, now, ticker, fresh_report, cache_ttl, tio)
                                call2 == [call1 EXCEPT !.fetch = fresh_report, !.cache_io = cio,
                                                       !.temp_io = tio]
                                tr2 == tr1 \o <<"fetch", "cache_put", "temp_put">>
                            IN  IF StoreRaises(tio)
                                THEN Finish([call2 EXCEPT !.ret = fallback, !.trace = tr2],
                                            c2, tmp2, points)
                                ELSE IF enable_vector_storage /\ vector_db
                                     THEN \E vouts \in [{"report"} \cup ReportParts(fresh_report)
                                                            -> VectorOutcomes] :
                                            Finish([call2 EXCEPT !.vector = vouts,
                                                        !.vector_ret = [d \in DOMAIN vouts |->
                                                                         StoreDocumentResult(vouts[d])],
                                                        !.ret = fresh_report,
                                                        !.trace = tr2 \o IndexTrace(fresh_report)],
                                                   c2, tmp2,
                                                   IndexReport(points, ticker, fresh_report, vouts))
                                     ELSE Finish([call2 EXCEPT !.ret = fresh_report, !.trace = tr2],
                                                 c2, tmp2, points)

\* outcome of create_collection: the collection was found, was created, the
\* creation was refused, or a request raised
CollectionOutcomes == {"exists", "created", "create_fail", "request_error"}

\* the bool create_collection returns
CreateCollectionResult(collection) == collection \in {"exists", "created"}

\* initialize that takes the probe's result as the new flag
InitializeFollowsProbe ==
    /\ CanCall
    /\ \E probe \in BOOLEAN :
        /\ enable_vector_storage' = probe
        /\ vector_db' = probe
        /\ last' = [op |-> "initialize", at |-> now,
                    test_connection |-> IF probe THEN "ok" ELSE "failed",
                    collection |-> "not_called", ret |-> TRUE,
                    pre |-> [enable_vector_storage |-> enable_vector_storage]]
    /\ nops' = nops + 1
    /\ UNCHANGED <<now, cache, temp, points, threads>>

\* initialize: probe is the result of test_connection, collection the outcome
\* of create_collection, whose result initialize does not look at
Initialize ==
    /\ CanCall
    /\ \E probe \in BOOLEAN, collection \in CollectionOutcomes :
        LET probed == enable_vector_storage /\ vector_db
        IN  /\ IF probed /\ ~probe
               THEN enable_vector_storage' = FALSE /\ vector_db' = FALSE
               ELSE UNCHANGED <<enable_vector_storage, vector_db>>
            /\ last' = [op |-> "initialize", at |-> now,
                        test_connection |-> IF ~probed THEN "not_called"
                                            ELSE IF probe THEN "ok" ELSE "failed",
                        collection |-> IF probed /\ probe THEN collection ELSE "not_called",
                        ret |-> TRUE,
                        pre |-> [enable_vector_storage |-> enable_vector_storage]]
    /\ nops' = nops + 1
    /\ UNCHANGED <<now, cache, temp, points, threads>>

---------------------------------------------------------------------------
(* CacheManager called on its own *)

CacheResponseCall ==
    /\ CanCall
    /\ \E cache_type \in CacheTypes, response \in Data, io \in IOOutcomes :
        \E data \in Fingerprints(cache_type) :
            /\ cache' = CacheResponse(cache, now, cache_type, data, response, io)
            /\ last' = [op |-> "cache_response", cache_type |-> cache_type, data |-> data,
                        response |-> response, io |-> io, at |-> now,
                        ret |-> CacheResponseResult(io), pre |-> [cache |-> cache]]
    /\ nops' = nops + 1
    /\ UNCHANGED <<now, temp, points, enable_vector_storage, vector_db, threads>>

GetCachedResponseCall ==
    /\ CanCall
    /\ \E cache_type \in CacheTypes, ttl \in TTLs :
        \E data \in Fingerprints(cache_type) :
            last' = [op |-> "get_cached_response", cache_type |-> cache_type, data |-> data,
                     ttl |-> ttl, at |-> now,
                     ret |-> GetCachedResponse(cache, now, cache_type, data, ttl),
                     pre |-> [cache |-> cache]]
    /\ nops' = nops + 1
    /\ UNCHANGED <<now, cache, temp, points, enable_vector_storage, vector_db, threads>>

---------------------------------------------------------------------------

\* the caller takes the result
ReturnToCaller ==
    /\ last # Idle
    /\ nops < MaxOps
    /\ last' = Idle
    /\ UNCHANGED <<now, cache, temp, points, enable_vector_storage, vector_db, nops, threads>>

\* the clock moves on between calls; time 0 is the time of the first call
Advance ==
    /\ last = Idle
    /\ nops > 0
    /\ \/ /\ now % DefaultTTL < MaxSmallSteps
          /\ now' = now + 1
       \/ /\ now < MaxLongWaits * DefaultTTL
          /\ now' = now + DefaultTTL
    /\ UNCHANGED <<cache, temp, points, enable_vector_storage, vector_db, last, nops, threads>>

Init ==
    /\ now = 0
    /\ cache = [p \in CachePaths |-> NoFile]
    /\ temp = {}
    /\ points = {}
    /\ enable_vector_storage \in BOOLEAN
    /\ vector_db = enable_vector_storage
    /\ last = Idle
    /\ nops = 0
    /\ threads = [i \in Threads |-> NotRunning]

\* StorageManager and its callers
Next ==
    \/ GetOrFetchData
    \/ GetOrGenerateReport
    \/ Initialize
    \/ ReturnToCaller
    \/ Advance

Spec == Init /\ [][Next]_vars

\* CacheManager and its callers
NextCache ==
    \/ CacheResponseCall
    \/ GetCachedResponseCall
    \/ ReturnToCaller
    \/ Advance

SpecCache == Init /\ [][NextCache]_vars

---------------------------------------------------------------------------
(* What the claims speak of *)

\* the records TempStorage holds for an identity
ApiRecords(tmp, ticker, api_name) ==
    {f \in tmp : /\ f.dir = "api_responses"
                 /\ f.state = "ok"
                 /\ f.content.ticker = ticker
                 /\ f.content.api_name = api_name}

ReportRecords(tmp, ticker) ==
    {f \in tmp : f.dir = "reports" /\ f.state = "ok" /\ f.content.ticker = ticker}

\* the records of a ticker, whatever the api name
TickerRecords(tmp, ticker) ==
    {f \in tmp : f.state = "ok" /\ f.content.ticker = ticker}

ApiCachePath(api_name, ticker) ==
    GetCachePath("api", GenerateCacheKey(ApiFingerprint(api_name, ticker)))

ReportCachePath(ticker) ==
    GetCachePath("reports", GenerateCacheKey(ReportFingerprint(ticker)))

\* the ttl in force for a call: the one passed, else the default
EffectiveTTL(ttl) == IF ttl = NoTTL THEN DefaultTTL ELSE ttl

\* the cache holds a readable entry younger than ttl at time t
FreshEntry(c, t, path, ttl) ==
    /\ c[path].state = "ok"
    /\ t - c[path].mtime < EffectiveTTL(ttl)

\* the records of a set that are within their effective max age at time t
FreshRecords(recs, t, max_age) ==
    {f \in recs : t - f.mtime <= (IF max_age = NoTTL THEN f.content.ttl ELSE max_age)}

\* a mapping with exactly the keys error and ticker, for that ticker
IsErrorMapping(v, ticker) == DOMAIN v = {"error", "ticker"} /\ v.ticker = ticker

IsGetOrFetch == last.op = "get_or_fetch_data"
IsGetOrGenerate == last.op = "get_or_generate_report"

\* fetch_fn was invoked and returned
FetchSucceeded == last.fetch # NotCalled /\ last.fetch # Raises

\* the call ended at `return fresh_data`
ReturnedFresh == FetchSucceeded /\ last.temp_io = "ok"

\* how often an event occurs in a trace
Count(tr, e) == Cardinality({i \in 1..Len(tr) : tr[i] = e})

\* every occurrence of a precedes every occurrence of b
Precedes(tr, a, b) ==
    \A i, j \in 1..Len(tr) : (tr[i] = a /\ tr[j] = b) => i < j

---------------------------------------------------------------------------
(* Claims *)

\* C1: when fetch_fn raises during get_or_fetch and TempStorage holds a record
\* for (ticker, api_name), the call returns that record's payload (the newest
\* one's), stale or not; the {error, ticker} mapping is returned only when no
\* record of the identity exists.  Stated for identities whose records all
\* carry a non-empty payload.
C1_FallbackOnFetchFailure ==
    LET recs == ApiRecords(last.pre.temp, last.ticker, last.api_name)
    IN  ( /\ IsGetOrFetch
          /\ last.fetch = Raises
          /\ \A f \in recs : Truthy(f.content.data) )
        => /\ recs # {} => \E f \in LatestFiles(recs) : last.ret = f.content.data
           /\ IsErrorMapping(last.ret, last.ticker) => recs = {}

\* C3: if fetch_fn returns, get_or_fetch returns the fetched data, whatever
\* becomes of the writes to CacheManager and TempStorage: never the
\* {error, ticker} mapping, never a fallback temp value.
C3_WriteFailureIsNoOp ==
    (IsGetOrFetch /\ FetchSucceeded) => last.ret = last.fetch

\* no cache file of any namespace is keyed by the ticker
NoCacheEntryFor(c, ticker) ==
    /\ \A a \in ApiNames : c[ApiCachePath(a, ticker)].state = "missing"
    /\ c[ReportCachePath(ticker)].state = "missing"

\* C4: with no cache entry and no temp record for the ticker and a raising
\* fetch_fn (generate_fn), get_or_fetch (get_or_generate) returns a mapping with
\* exactly the keys error and ticker, ticker being the requested one.
C4_NoFallbackErrorShape ==
    ( /\ IsGetOrFetch \/ IsGetOrGenerate
      /\ last.fetch = Raises
      /\ NoCacheEntryFor(last.pre.cache, last.ticker)
      /\ TickerRecords(last.pre.temp, last.ticker) = {} )
    => IsErrorMapping(last.ret, last.ticker)

\* the value as json.dump(default=str) and json.load hand it back
JsonForm(v) == IF v = dt THEN dtJson ELSE v

\* the api entry of the call's key holds value v
CacheHolds(c, api_name, ticker, v) ==
    /\ c[ApiCachePath(api_name, ticker)].state = "ok"
    /\ c[ApiCachePath(api_name, ticker)].entry.response = v

\* C2 (as stated): whenever get_or_fetch returns the value of a successful
\* fetch_fn call of that same call, the api cache entry of (api_name, ticker)
\* holds that value and TempStorage holds a record of (ticker, api_name) whose
\* payload is that value.
C2_WriteThroughBeforeReturn ==
    (IsGetOrFetch /\ ReturnedFresh) =>
        /\ CacheHolds(cache, last.api_name, last.ticker, last.fetch)
        /\ \E f \in ApiRecords(temp, last.ticker, last.api_name) :
               f.content.data = last.fetch

\* C2 (amended): whenever get_or_fetch returns the value of a successful
\* fetch_fn call of that same call, TempStorage holds a record of
\* (ticker, api_name) written in that call whose payload is the value as JSON
\* hands it back, and the api cache entry holds the value unless the cache
\* write failed.
C2_WriteThroughAmended ==
    (IsGetOrFetch /\ ReturnedFresh) =>
        /\ last.cache_io = "ok" => CacheHolds(cache, last.api_name, last.ticker, last.fetch)
        /\ \E f \in ApiRecords(temp, last.ticker, last.api_name) :
               f.mtime = last.at /\ f.content.data = JsonForm(last.fetch)

C2_Witness ==
    /\ IsGetOrFetch /\ ReturnedFresh
    /\ last.cache_io = "ok"
    /\ last.ret = d1
    /\ CacheHolds(cache, last.api_name, last.ticker, d1)

\* store_document was called for financial data and failed
IndexingFailed ==
    /\ "financial_data" \in DOMAIN last.vector
    /\ last.vector.financial_data \in {"embed_fail", "upsert_fail"}

\* C5 (as stated): with vector storage enabled, when the embedding call or the
\* upsert fails in the indexing step of get_or_fetch, store returns false and
\* get_or_fetch returns the freshly fetched data, the cache entry and the temp
\* record for it being written.
C5_VectorFailureIsolated ==
    (IsGetOrFetch /\ IndexingFailed) =>
        /\ last.vector_ret.financial_data = FALSE
        /\ last.ret = last.fetch
        /\ CacheHolds(cache, last.api_name, last.ticker, last.fetch)
        /\ \E f \in ApiRecords(temp, last.ticker, last.api_name) :
               f.mtime = last.at /\ f.content.data = JsonForm(last.fetch)

\* C5 (amended): ... get_or_fetch returns the freshly fetched data, the temp
\* record for it being written, and the cache entry too unless the cache write
\* failed.
C5_VectorFailureIsolatedAmended ==
    (IsGetOrFetch /\ IndexingFailed) =>
        /\ enable_vector_storage
        /\ last.vector_ret.financial_data = FALSE
        /\ last.ret = last.fetch
        /\ points = last.pre.points
        /\ last.cache_io = "ok" => CacheHolds(cache, last.api_name, last.ticker, last.fetch)
        /\ \E f \in ApiRecords(temp, last.ticker, last.api_name) :
               f.mtime = last.at /\ f.content.data = JsonForm(last.fetch)

C5_Witness ==
    /\ IsGetOrFetch /\ IndexingFailed
    /\ last.vector.financial_data = "embed_fail"
    /\ last.cache_io = "ok"
    /\ last.ret = d1

\* C6: with force_refresh = false and a fresh cache entry for the ticker,
\* get_or_fetch returns without invoking fetch_fn and without writing to the
\* cache, TempStorage or the vector index; in every call the cache is consulted
\* before TempStorage and TempStorage before fetch_fn.
C6_CacheHitShortCircuits ==
    IsGetOrFetch =>
        /\ ( /\ ~last.force_refresh
             /\ FreshEntry(last.pre.cache, last.at,
                           ApiCachePath(last.api_name, last.ticker), last.cache_ttl) )
           => /\ last.fetch = NotCalled
              /\ Count(last.trace, "fetch") = 0
              /\ cache = last.pre.cache
              /\ temp = last.pre.temp
              /\ points = last.pre.points
        /\ Precedes(last.trace, "cache_get", "temp_get")
        /\ Precedes(last.trace, "temp_get", "fetch")
        /\ Precedes(last.trace, "cache_get", "fetch")

C6_Witness ==
    /\ IsGetOrFetch
    /\ ~last.force_refresh
    /\ FreshEntry(last.pre.cache, last.at,
                  ApiCachePath(last.api_name, last.ticker), last.cache_ttl)
    /\ last.trace = <<"cache_get">>
    /\ last.ret # None

\* C7: with force_refresh = false, no fresh cache entry and a fresh temp record
\* for (ticker, api_name), get_or_fetch returns that record's payload without
\* invoking fetch_fn, and afterwards the cache holds that payload, so that the
\* next get_or_fetch within the TTL is a cache hit.  Stated for calls in which
\* no cache write fails.
C7_TempHitPromotes ==
    LET path == ApiCachePath(last.api_name, last.ticker)
        fresh == FreshRecords(ApiRecords(last.pre.temp, last.ticker, last.api_name),
                              last.at, last.cache_ttl)
    IN  ( /\ IsGetOrFetch
          /\ ~last.force_refresh
          /\ ~FreshEntry(last.pre.cache, last.at, path, last.cache_ttl)
          /\ fresh # {}
          /\ last.cache_io \in {"none", "ok"} )
        => /\ last.fetch = NotCalled
           /\ \E f \in LatestFiles(fresh) : last.ret = f.content.data
           /\ CacheHolds(cache, last.api_name, last.ticker, last.ret)
           /\ GetCachedResponse(cache, last.at, "api",
                                ApiFingerprint(last.api_name, last.ticker),
                                last.cache_ttl) # None

\* C8: with force_refresh = true, get_or_fetch invokes fetch_fn exactly once
\* whatever the cache and TempStorage hold, and when fetch_fn returns it returns
\* the fetched data and overwrites the cache entry with it; no cache entry or
\* temp record is returned in its place.  Stated for calls in which no cache
\* write fails.
C8_ForceRefreshFetches ==
    ( /\ IsGetOrFetch
      /\ last.force_refresh
      /\ last.cache_io \in {"none", "ok"} )
    => /\ Count(last.trace, "fetch") = 1
       /\ Count(last.trace, "cache_get") = 0
       /\ FetchSucceeded =>
            /\ last.ret = last.fetch
            /\ CacheHolds(cache, last.api_name, last.ticker, last.fetch)

\* C9: put(ns, fp, r) followed immediately by get(ns, fp) returns a value
\* equal to r.
C9_PutThenGet ==
    LET path == GetCachePath(last.cache_type, GenerateCacheKey(last.data))
    IN  ( /\ last.op = "get_cached_response"
          /\ last.pre.cache[path].state = "ok"
          /\ last.pre.cache[path].mtime = last.at )
        => last.ret = last.pre.cache[path].entry.response

\* C10: after put(ns, fp, r) at time t0 and no later put to that key,
\* get(ns, fp, ttl = T) returns present at every time t with t - t0 < T and
\* absent at every time t with t - t0 >= T, for any T passed.  (Its second
\* sentence, no present after an absent without a new put, follows from this
\* one for a clock that never goes back.)
C10_TTLGate ==
    LET path == GetCachePath(last.cache_type, GenerateCacheKey(last.data))
    IN  ( /\ last.op = "get_cached_response"
          /\ last.pre.cache[path].state = "ok"
          /\ last.ttl # NoTTL )
        => (last.ret # None <=> last.at - last.pre.cache[path].mtime < last.ttl)

---------------------------------------------------------------------------
(* TempStorage called on its own *)

\* calls made in one behaviour of TempStorage alone
MaxTempOps == 3

\* a ttl longer than any time the clock reaches
LongTTL == 3600

\* the ttl values store_api_response and store_report are called with
TempTTLs == {NoTTL, 1, LongTTL}

\* the payloads stored
TempData == {d1, dt}

CanCallTemp == nops < MaxTempOps /\ last = Idle

\* expiry judged by the default ttl instead of the ttl the record carries
ExpiredFilesByDefaultTTL(tmp, t) ==
    {f \in tmp : f.state = "ok" /\ t - f.mtime > DefaultTTL}

\* the age test of cleanup_expired_files turned round
ExpiredFilesAgeInverted(tmp, t) ==
    {f \in tmp : f.state = "ok" /\ t - f.mtime < f.content.ttl}

\* cleanup_expired_files: a readable file older than its own ttl is unlinked,
\* unless the unlink raises (stuck); a file json.load cannot read is skipped
ExpiredFiles(tmp, t) == {f \in tmp : f.state = "ok" /\ t - f.mtime > f.content.ttl}

CleanupExpiredFiles(tmp, t, stuck) == tmp \ (ExpiredFiles(tmp, t) \ stuck)

\* removed_count
CleanupExpiredFilesResult(tmp, t, stuck) == Cardinality(ExpiredFiles(tmp, t) \ stuck)

StoreApiResponseCall ==
    /\ CanCallTemp
    /\ \E ticker \in Tickers, api_name \in ApiNames, data \in TempData,
          ttl \in TempTTLs, io \in IOOutcomes :
        /\ temp' = StoreApiResponse(temp, now, ticker, api_name, data, ttl, io)
        /\ last' = [op |-> "store_api_response", ticker |-> ticker, api_name |-> api_name,
                    data |-> data, ttl |-> ttl, io |-> io, at |-> now,
                    raised |-> StoreRaises(io), pre |-> [temp |-> temp]]
    /\ nops' = nops + 1
    /\ UNCHANGED <<now, cache, points, enable_vector_storage, vector_db, threads>>

StoreReportCall ==
    /\ CanCallTemp
    /\ \E ticker \in Tickers, report_data \in {repFin}, ttl \in TempTTLs, io \in IOOutcomes :
        /\ temp' = StoreReport(temp, now, ticker, report_data, ttl, io)
        /\ last' = [op |-> "store_report", ticker |-> ticker, api_name |-> "",
                    data |-> report_data, ttl |-> ttl, io |-> io, at |-> now,
                    raised |-> StoreRaises(io), pre |-> [temp |-> temp]]
    /\ nops' = nops + 1
    /\ UNCHANGED <<now, cache, points, enable_vector_storage, vector_db, threads>>

GetApiResponseCall ==
    /\ CanCallTemp
    /\ \E ticker \in Tickers, api_name \in ApiNames, max_age \in {NoTTL, 1} :
        \E ret \in GetApiResponseResults(temp, now, ticker, api_name, max_age) :
            last' = [op |-> "get_api_response", ticker |-> ticker, api_name |-> api_name,
                     max_age |-> max_age, at |-> now, ret |-> ret, pre |-> [temp |-> temp]]
    /\ nops' = nops + 1
    /\ UNCHANGED <<now, cache, temp, points, enable_vector_storage, vector_db, threads>>

GetReportCall ==
    /\ CanCallTemp
    /\ \E ticker \in Tickers, max_age \in {NoTTL, 1} :
        \E ret \in GetReportResults(temp, now, ticker, max_age) :
            last' = [op |-> "get_report", ticker |-> ticker, api_name |-> "",
                     max_age |-> max_age, at |-> now, ret |-> ret, pre |-> [temp |-> temp]]
    /\ nops' = nops + 1
    /\ UNCHANGED <<now, cache, temp, points, enable_vector_storage, vector_db, threads>>

CleanupExpiredFilesCall ==
    /\ CanCallTemp
    /\ \E stuck \in SUBSET ExpiredFiles(temp, now) :
        /\ temp' = CleanupExpiredFiles(temp, now, stuck)
        /\ last' = [op |-> "cleanup_expired_files", stuck |-> stuck, at |-> now,
                    ret |-> CleanupExpiredFilesResult(temp, now, stuck),
                    pre |-> [temp |-> temp]]
    /\ nops' = nops + 1
    /\ UNCHANGED <<now, cache, points, enable_vector_storage, vector_db, threads>>

\* the caller of TempStorage takes the result
ReturnToCallerTemp ==
    /\ last # Idle
    /\ nops < MaxTempOps
    /\ last' = Idle
    /\ UNCHANGED <<now, cache, temp, points, enable_vector_storage, vector_db, nops, threads>>

\* TempStorage and its callers
NextTemp ==
    \/ StoreApiResponseCall
    \/ StoreReportCall
    \/ GetApiResponseCall
    \/ GetReportCall
    \/ CleanupExpiredFilesCall
    \/ ReturnToCallerTemp
    \/ Advance

SpecTemp == Init /\ [][NextTemp]_vars

---------------------------------------------------------------------------
(* Claims about TempStorage *)

IsGetApiResponse == last.op = "get_api_response"

\* the record is within the ttl it carries at time t
WithinOwnTTL(f, t) == t - f.mtime <= f.content.ttl

\* C11: after put_api_response(T, x, A) followed by put_api_response(T, x, B),
\* both within their ttl, get_api_response(T, x) returns B, whatever the
\* spacing of the two puts.  B is the payload the newest record of (T, x)
\* holds; stated for a directory in which every write succeeded.
C11_MostRecentWins ==
    LET recs == ApiRecords(last.pre.temp, last.ticker, last.api_name)
    IN  ( /\ IsGetApiResponse
          /\ last.max_age = NoTTL
          /\ \A f \in last.pre.temp : f.state = "ok"
          /\ recs # {}
          /\ \A f \in recs : WithinOwnTTL(f, last.at) )
        => \E f \in LatestFiles(recs) : last.ret = f.content.data

\* C12: get_api_response(ticker, api_name) with max_age omitted returns the
\* payload of the most recently modified record of the identity among those
\* still within their own ttl, and absent only when no record of the identity
\* is within its own ttl.  Stated for directories in which the files the
\* lookup matches are exactly the readable records of the identity.
C12_NewestFreshRecord ==
    LET recs == ApiRecords(last.pre.temp, last.ticker, last.api_name)
        fresh == {f \in recs : WithinOwnTTL(f, last.at)}
    IN  ( /\ IsGetApiResponse
          /\ last.max_age = NoTTL
          /\ Glob(last.pre.temp, "api_responses",
                  ApiFileName(last.ticker, last.api_name)) = recs )
        => /\ fresh # {} => \E f \in LatestFiles(fresh) : last.ret = f.content.data
           /\ last.ret = None => fresh = {}

\* C13: every successful put_api_response and put_report adds a new record and
\* leaves every earlier record of the same identity in place, so that n
\* successful puts leave n records of the identity.
C13_PutAppends ==
    ( /\ last.op \in {"store_api_response", "store_report"}
      /\ ~last.raised )
    => LET before == IF last.op = "store_api_response"
                     THEN ApiRecords(last.pre.temp, last.ticker, last.api_name)
                     ELSE ReportRecords(last.pre.temp, last.ticker)
           after == IF last.op = "store_api_response"
                    THEN ApiRecords(temp, last.ticker, last.api_name)
                    ELSE ReportRecords(temp, last.ticker)
       IN  /\ before \subseteq after
           /\ Cardinality(after) = Cardinality(before) + 1

\* the readable records of a directory whose age exceeds the ttl they carry
AgeExceedsOwnTTL(tmp, t) == {f \in tmp : f.state = "ok" /\ ~WithinOwnTTL(f, t)}

\* C14 (as stated): sweep_expired of TempStorage removes exactly the records
\* whose age exceeds their own stored ttl, leaves every record within its own
\* ttl in place, and returns the number of records it removed.
C14_TempSweepExact ==
    last.op = "cleanup_expired_files" =>
        /\ temp = last.pre.temp \ AgeExceedsOwnTTL(last.pre.temp, last.at)
        /\ last.ret = Cardinality(AgeExceedsOwnTTL(last.pre.temp, last.at))

\* C14 (amended): sweep_expired of TempStorage removes exactly the records
\* whose age exceeds their own stored ttl and whose removal does not fail,
\* leaves every other file in place, and returns the number of records it
\* removed.
C14_TempSweepAmended ==
    last.op = "cleanup_expired_files" =>
        /\ temp \subseteq last.pre.temp
        /\ \A f \in last.pre.temp :
               f \notin temp <=> ( /\ f \in AgeExceedsOwnTTL(last.pre.temp, last.at)
                                   /\ f \notin last.stuck )
        /\ last.ret = Cardinality(last.pre.temp \ temp)

C14_Witness ==
    /\ last.op = "cleanup_expired_files"
    /\ last.stuck = {}
    /\ last.ret = 1
    /\ \E f \in temp : f.state = "ok" /\ f.content.ttl = LongTTL /\ last.at - f.mtime >= DefaultTTL

---------------------------------------------------------------------------
(* Cleanup of expired data *)

\* calls made in one behaviour of CacheManager that ends in a sweep
MaxCleanupOps == 3

\* entries swept after one second instead of after the default ttl
ExpiredEntriesAfterOneSecond(c, t) ==
    {p \in DOMAIN c : c[p].state # "missing" /\ t - c[p].mtime >= 1}

\* the *.cache files cleanup_expired_cache finds not valid under default_ttl
ExpiredEntries(c, t) ==
    {p \in DOMAIN c : c[p].state # "missing" /\ ~IsCacheValid(c, t, p, DefaultTTL)}

\* cleanup_expired_cache: each such file is unlinked unless the unlink raises
CleanupExpiredCache(c, t, stuck) ==
    [p \in DOMAIN c |-> IF p \in ExpiredEntries(c, t) \ stuck THEN NoFile ELSE c[p]]

\* removed_count
CleanupExpiredCacheResult(c, t, stuck) == Cardinality(ExpiredEntries(c, t) \ stuck)

\* CacheManager.cleanup_expired_cache called on its own
CleanupExpiredCacheCall ==
    /\ nops < MaxCleanupOps
    /\ last = Idle
    /\ \E stuck \in SUBSET ExpiredEntries(cache, now) :
        /\ cache' = CleanupExpiredCache(cache, now, stuck)
        /\ last' = [op |-> "cleanup_expired_cache", at |-> now, stuck |-> stuck,
                    ret |-> CleanupExpiredCacheResult(cache, now, stuck),
                    pre |-> [cache |-> cache]]
    /\ nops' = nops + 1
    /\ UNCHANGED <<now, temp, points, enable_vector_storage, vector_db, threads>>

\* the caller of a sweep takes the result
ReturnToCallerCleanup ==
    /\ last # Idle
    /\ nops < MaxCleanupOps
    /\ last' = Idle
    /\ UNCHANGED <<now, cache, temp, points, enable_vector_storage, vector_db, nops, threads>>

\* CacheManager with its sweep
NextCacheCleanup ==
    \/ CacheResponseCall
    \/ GetCachedResponseCall
    \/ CleanupExpiredCacheCall
    \/ ReturnToCallerCleanup
    \/ Advance

SpecCacheCleanup == Init /\ [][NextCacheCleanup]_vars

\* StorageManager.cleanup_expired_data
CleanupExpiredData ==
    /\ CanCall
    /\ \E cache_stuck \in SUBSET ExpiredEntries(cache, now),
          temp_stuck \in SUBSET ExpiredFiles(temp, now) :
        /\ cache' = CleanupExpiredCache(cache, now, cache_stuck)
        /\ temp' = CleanupExpiredFiles(temp, now, temp_stuck)
        /\ last' = [op |-> "cleanup_expired_data", at |-> now,
                    cache_stuck |-> cache_stuck, temp_stuck |-> temp_stuck,
                    ret |-> [cache_files_removed |->
                                 CleanupExpiredCacheResult(cache, now, cache_stuck),
                             temp_files_removed |->
                                 CleanupExpiredFilesResult(temp, now, temp_stuck)],
                    pre |-> [cache |-> cache, temp |-> temp]]
    /\ nops' = nops + 1
    /\ UNCHANGED <<now, points, enable_vector_storage, vector_db, threads>>

\* a write through CacheManager, TempStorage or get_or_fetch_data, then a cleanup
NextCleanup ==
    \/ CacheResponseCall
    \/ StoreApiResponseCall
    \/ GetOrFetchData
    \/ CleanupExpiredData
    \/ ReturnToCaller
    \/ Advance

SpecCleanup == Init /\ [][NextCleanup]_vars

---------------------------------------------------------------------------
(* Claims about cleanup *)

\* the cache files present before the call
FilesBefore == {p \in DOMAIN last.pre.cache : last.pre.cache[p].state # "missing"}

\* the cache files the call removed
FilesRemoved == {p \in FilesBefore : cache[p] = NoFile}

\* C15 (as stated): sweep_expired of CacheManager removes every entry whose
\* age exceeds the default ttl and no entry whose age is below it, whatever
\* ttl was used to write or read the entry, and returns the number of entries
\* it removed.
C15_CacheSweepByDefaultTTL ==
    last.op = "cleanup_expired_cache" =>
        /\ \A p \in FilesBefore :
            /\ last.at - last.pre.cache[p].mtime > DefaultTTL => cache[p] = NoFile
            /\ last.at - last.pre.cache[p].mtime < DefaultTTL => cache[p] = last.pre.cache[p]
        /\ last.ret = Cardinality(FilesRemoved)

\* C15 (amended): sweep_expired of CacheManager removes every entry whose age
\* exceeds the default ttl unless removing it fails, and no entry whose age is
\* below it, whatever ttl was used to write or read the entry; an entry whose
\* removal fails stays in place; it returns the number of entries it removed.
C15_CacheSweepAmended ==
    last.op = "cleanup_expired_cache" =>
        /\ \A p \in FilesBefore :
            /\ (last.at - last.pre.cache[p].mtime > DefaultTTL /\ p \notin last.stuck)
                   => cache[p] = NoFile
            /\ (last.at - last.pre.cache[p].mtime < DefaultTTL \/ p \in last.stuck)
                   => cache[p] = last.pre.cache[p]
        /\ \A p \in DOMAIN cache \ FilesBefore : cache[p] = NoFile
        /\ last.ret = Cardinality(FilesRemoved)

C15_Witness ==
    /\ last.op = "cleanup_expired_cache"
    /\ last.stuck = {}
    /\ last.ret = 1
    /\ \E p \in FilesRemoved : last.at - last.pre.cache[p].mtime > DefaultTTL
    /\ \E p \in FilesBefore : /\ last.at - last.pre.cache[p].mtime < DefaultTTL
                              /\ cache[p].state = "ok"

\* C16: cleanup_expired_data run immediately (within a second) after a write
\* with a long ttl (a CacheManager put, a TempStorage put, the write-through
\* of get_or_fetch) removes neither the cache entry nor the temp record that
\* write created, and both remain readable afterwards.
C16_CleanupSparesNewWrites ==
    last.op = "cleanup_expired_data" =>
        /\ \A p \in FilesBefore :
            (last.pre.cache[p].state = "ok" /\ last.at - last.pre.cache[p].mtime <= 1)
                => /\ cache[p] = last.pre.cache[p]
                   /\ FreshEntry(cache, last.at, p, NoTTL)
        /\ \A f \in last.pre.temp :
            ( /\ f.state = "ok"
              /\ last.at - f.mtime <= 1
              /\ f.content.ttl >= DefaultTTL )
                => /\ f \in temp
                   /\ ReadTempFile(f, last.at, NoTTL, "data") = f.content.data

C16_Witness ==
    /\ last.op = "cleanup_expired_data"
    /\ \E p \in FilesBefore : cache[p].state = "ok" /\ cache[p].mtime = last.at
    /\ \E f \in temp : f.state = "ok" /\ f.mtime = last.at /\ f.content.ttl >= DefaultTTL

---------------------------------------------------------------------------
(* Claims about initialize *)

\* C17: enable_vector_storage changes value only from true to false (hence at
\* most once, and never back to true), only inside initialize and only when
\* the connectivity probe fails.
C17_VectorFlagLatch ==
    [][ enable_vector_storage' # enable_vector_storage =>
            /\ enable_vector_storage
            /\ ~enable_vector_storage'
            /\ last'.op = "initialize"
            /\ last'.test_connection = "failed" ]_vars

C17_Witness ==
    /\ last.op = "initialize"
    /\ last.pre.enable_vector_storage
    /\ ~enable_vector_storage
    /\ last.test_connection = "failed"

\* C18: whenever initialize completes with vector storage still enabled, the
\* connectivity probe succeeded and the collection was found to exist or was
\* created successfully.
C18_ReadyImpliesCollection ==
    (last.op = "initialize" /\ enable_vector_storage) =>
        /\ last.test_connection = "ok"
        /\ last.collection \in {"exists", "created"}

---------------------------------------------------------------------------
(* Claims about indexing *)

\* C19: on a fresh successful generation in get_or_generate with vector
\* storage enabled, the full report is indexed as document type report, and
\* financial_summary (as financial_data) and web_data (as news) are each
\* indexed exactly when the report has that key, each attempt being made
\* whether or not an earlier one failed; none is made when the report is
\* served from the cache or from TempStorage.
C19_ReportIndexing ==
    IsGetOrGenerate =>
        /\ (FetchSucceeded /\ enable_vector_storage) =>
            /\ Count(last.trace, "vector_store_report") = 1
            /\ Count(last.trace, "vector_store_financial_data") =
                   (IF "financial_summary" \in DOMAIN last.fetch THEN 1 ELSE 0)
            /\ Count(last.trace, "vector_store_news") =
                   (IF "web_data" \in DOMAIN last.fetch THEN 1 ELSE 0)
        /\ last.fetch = NotCalled =>
            /\ last.vector = << >>
            /\ points = last.pre.points
            /\ \A i \in 1..Len(last.trace) :
                   last.trace[i] \notin {"vector_store_report",
                                         "vector_store_financial_data", "vector_store_news"}

---------------------------------------------------------------------------
(* Search *)

\* the ticker filter of a search; "" stands for no filter (None)
SearchTickers == Tickers \cup {""}

\* outcome of search_similar: documents returned, generate_embeddings returned
\* None, the search request was refused, a request raised, or the answer
\* lacked a field
SearchOutcomes == {"ok", "embed_fail", "search_fail", "request_error", "bad_answer"}

\* the flag test that never finds vector storage disabled
VectorStorageDisabledNever(enabled, db) == FALSE

\* `not self.enable_vector_storage or not self.vector_db`
VectorStorageDisabled(enabled, db) == ~enabled \/ ~db

\* the documents search_similar returns (their order and scores left out)
SearchSimilar(pts, ticker, outcome) ==
    IF outcome = "ok"
    THEN {pt \in pts : ticker = "" \/ pt.ticker = ticker}
    ELSE {}

\* the requests search_similar sends
SearchSimilarRequests(outcome) ==
    IF outcome = "embed_fail" THEN <<"embed">> ELSE <<"embed", "search">>

\* search_similar catches every exception
SearchSimilarRaises(outcome) == FALSE

SearchFinancialKnowledge ==
    /\ CanCall
    /\ \E ticker \in SearchTickers, outcome \in SearchOutcomes :
        LET disabled == VectorStorageDisabled(enable_vector_storage, vector_db)
        IN  last' = [op |-> "search_financial_knowledge", ticker |-> ticker, at |-> now,
                     outcome |-> IF disabled THEN "not_called" ELSE outcome,
                     requests |-> IF disabled THEN <<>> ELSE SearchSimilarRequests(outcome),
                     raised |-> IF disabled THEN FALSE ELSE SearchSimilarRaises(outcome),
                     ret |-> IF disabled THEN {} ELSE SearchSimilar(points, ticker, outcome),
                     pre |-> [points |-> points]]
    /\ nops' = nops + 1
    /\ UNCHANGED <<now, cache, temp, points, enable_vector_storage, vector_db, threads>>

\* StorageManager.store_financial_data called on its own
StoreFinancialData ==
    /\ CanCall
    /\ \E ticker \in Tickers, data \in Data, vout \in VectorOutcomes :
        LET disabled == VectorStorageDisabled(enable_vector_storage, vector_db)
        IN  /\ points' = IF disabled THEN points
                         ELSE StoreDocument(points, ticker, "financial_data", data, << >>, vout)
            /\ last' = [op |-> "store_financial_data", ticker |-> ticker, data |-> data,
                        at |-> now, outcome |-> IF disabled THEN "not_called" ELSE vout,
                        ret |-> IF disabled THEN FALSE ELSE StoreDocumentResult(vout),
                        pre |-> [points |-> points]]
    /\ nops' = nops + 1
    /\ UNCHANGED <<now, cache, temp, enable_vector_storage, vector_db, threads>>

\* the vector side of StorageManager
NextVector ==
    \/ Initialize
    \/ StoreFinancialData
    \/ SearchFinancialKnowledge
    \/ ReturnToCaller
    \/ Advance

SpecVector == Init /\ [][NextVector]_vars

\* C20: search returns an empty list and sends no embedding or vector-service
\* request whenever vector storage is disabled, by configuration or by a
\* failed probe at initialize, and it never raises, enabled or disabled,
\* whether the embedding or search request succeeds or fails.
C20_SearchNeverFails ==
    last.op = "search_financial_knowledge" =>
        /\ ~last.raised
        /\ ~enable_vector_storage => (last.ret = {} /\ last.requests = <<>>)

C20_Witness ==
    /\ last.op = "search_financial_knowledge"
    /\ ~enable_vector_storage
    /\ last.ret = {}
    /\ last.requests = <<>>

---------------------------------------------------------------------------
(* Claims about failures, identities and payloads *)

\* C24: every CacheManager and TempStorage operation handles a failing file
\* read or write by returning a miss or a no-op result; none of them raises
\* to its caller.
C24_NoOperationRaises ==
    "raised" \in DOMAIN last => ~last.raised

\* C25: when a get_or_fetch (get_or_generate) call is served from the cache,
\* it returns the same data as the call that populated the cache returned,
\* which is the response the cache entry holds.
C25_CacheHitReturnsFetchedData ==
    ( /\ IsGetOrFetch \/ IsGetOrGenerate
      /\ last.trace = <<"cache_get">> )
    => LET path == IF IsGetOrFetch THEN ApiCachePath(last.api_name, last.ticker)
                   ELSE ReportCachePath(last.ticker)
       IN  last.ret = last.pre.cache[path].entry.response

\* C26: get_api_response(ticker, api_name) and get_report(ticker) return only
\* payloads stored under exactly that ticker and api name; a record of another
\* identity, one whose name extends the requested one by a "_" suffix
\* included, is never selected.
C26_OnlyOwnIdentity ==
    /\ (IsGetApiResponse /\ last.ret # None) =>
           \E f \in ApiRecords(last.pre.temp, last.ticker, last.api_name) :
               f.content.data = last.ret
    /\ (last.op = "get_report" /\ last.ret # None) =>
           \E f \in ReportRecords(last.pre.temp, last.ticker) :
               f.content.report = last.ret

\* C28: when fetch_fn (generate_fn) raises, get_or_fetch (get_or_generate)
\* leaves the cache, TempStorage and the vector index as they were: neither
\* the error mapping nor the fallback value is written anywhere.
C28_FailedFetchWritesNothing ==
    ( /\ IsGetOrFetch \/ IsGetOrGenerate
      /\ last.fetch = Raises )
    => /\ cache = last.pre.cache
       /\ temp = last.pre.temp
       /\ points = last.pre.points

C28_Witness ==
    /\ IsGetOrFetch
    /\ last.fetch = Raises
    /\ Truthy(last.temp_data)
    /\ last.ret = last.temp_data
    /\ cache = last.pre.cache

\* C30: with force_refresh false, a fresh temp record is served by
\* get_or_fetch and get_or_generate whatever its payload is, an empty mapping
\* included; fetch_fn is not invoked while TempStorage answers with a record.
C30_FalsyTempPayloadServed ==
    ( /\ IsGetOrFetch \/ IsGetOrGenerate
      /\ ~last.force_refresh
      /\ last.temp_data # NotCalled
      /\ last.temp_data # None )
    => /\ last.fetch = NotCalled
       /\ last.ret = last.temp_data

---------------------------------------------------------------------------
(* How long a fetched value is served *)

\* calls made in one behaviour of repeated lookups
MaxServeOps == 3

\* what fetch_fn returns at time t: a payload that carries its time of making
FetchedAt(t) == [price |-> 150, fetched_at |-> t]

\* get_or_fetch_data called again and again for one identity without
\* force_refresh, fetch_func returning a payload made at the time of the call
GetOrFetchDataRepeated ==
    /\ nops < MaxServeOps
    /\ last = Idle
    /\ \E ticker \in {"RDS"}, api_name \in {"av"}, force_refresh \in {FALSE}, cache_ttl \in CallTTLs :
        LET fp == ApiFingerprint(api_name, ticker)
            cached_data == GetCachedResponse(cache, now, "api", fp, cache_ttl)
            call == [op |-> "get_or_fetch_data", ticker |-> ticker, api_name |-> api_name,
                     force_refresh |-> force_refresh, cache_ttl |-> cache_ttl, at |-> now,
                     cached_data |-> cached_data, temp_data |-> NotCalled,
                     fetch |-> NotCalled, cache_io |-> "none", temp_io |-> "none",
                     vector |-> << >>, vector_ret |-> << >>,
                     trace |-> <<"cache_get">>, ret |-> None, pre |-> None]
        IN  IF Truthy(cached_data)
            THEN Finish([call EXCEPT !.ret = cached_data], cache, temp, points)
            ELSE \E temp_data \in GetApiResponseResults(temp, now, ticker, api_name, cache_ttl) :
                LET call1 == [call EXCEPT !.temp_data = temp_data]
                    tr1 == <<"cache_get", "temp_get">>
                    fallback == IF Truthy(temp_data) THEN temp_data ELSE FetchError(ticker)
                IN  IF Truthy(temp_data)
                    THEN \E cio \in IOOutcomes :
                            Finish([call1 EXCEPT !.cache_io = cio, !.ret = temp_data,
                                                 !.trace = tr1 \o <<"cache_put">>],
                                   CacheResponse(cache, now, "api", fp, temp_data, cio),
                                   temp, points)
                    ELSE \/ Finish([call1 EXCEPT !.fetch = Raises, !.ret = fallback,
                                                 !.trace = tr1 \o <<"fetch">>],
                                   cache, temp, points)
                         \/ \E fresh_data \in {FetchedAt(now)}, cio \in IOOutcomes, tio \in IOOutcomes :
                            LET c2 == CacheResponse(cache, now, "api", fp, fresh_data, cio)
                                tmp2 == StoreApiResponse(temp, now, ticker, api_name,
                                                         fresh_data, cache_ttl, tio)
                                call2 == [call1 EXCEPT !.fetch = fresh_data, !.cache_io = cio,
                                                       !.temp_io = tio]
                                tr2 == tr1 \o <<"fetch", "cache_put", "temp_put">>
                            IN  IF StoreRaises(tio)
                                THEN Finish([call2 EXCEPT !.ret = fallback, !.trace = tr2],
                                            c2, tmp2, points)
                                ELSE IF enable_vector_storage /\ vector_db
                                     THEN \E vout \in VectorOutcomes :
                                            Finish([call2 EXCEPT !.vector = [financial_data |-> vout],
                                                        !.vector_ret = [financial_data |->
                                                                         StoreDocumentResult(vout)],
                                                        !.ret = fresh_data,
                                                        !.trace = tr2 \o <<"vector_store">>],
                                                   c2, tmp2,
                                                   StoreDocument(points, ticker, "financial_data",
                                                       fresh_data, [source |-> api_name], vout))
                                     ELSE Finish([call2 EXCEPT !.ret = fresh_data, !.trace = tr2],
                                                 c2, tmp2, points)

\* the caller of the repeated lookups takes the result
ReturnToCallerServe ==
    /\ last # Idle
    /\ nops < MaxServeOps
    /\ last' = Idle
    /\ UNCHANGED <<now, cache, temp, points, enable_vector_storage, vector_db, nops, threads>>

\* one identity looked up repeatedly
NextServe ==
    \/ GetOrFetchDataRepeated
    \/ ReturnToCallerServe
    \/ Advance

SpecServe == Init /\ [][NextServe]_vars

\* the fetched payload a lookup hands back without fetching: the temp payload,
\* or the response inside the cache entry
ServedPayload ==
    IF last.trace = <<"cache_get">> THEN last.ret.response ELSE last.ret

\* C27: every value get_or_fetch(ttl=T) without force_refresh returns from the
\* cache or from TempStorage without invoking fetch_fn was made by a fetch_fn
\* call at most T seconds earlier; promoting a temp record into the cache
\* does not extend how long a fetched value keeps being served.
C27_ServedWithinTTL ==
    ( /\ IsGetOrFetch
      /\ ~last.force_refresh
      /\ last.fetch = NotCalled )
    => last.at - ServedPayload.fetched_at <= EffectiveTTL(last.cache_ttl)

---------------------------------------------------------------------------
(* Concurrent callers of one cache entry.  A pickled entry is larger than one
   write() of the pickler, so a dump reaches the file in two parts and a load
   takes it from the file in two parts.  Every system call succeeds. *)

\* calls started in one behaviour of racing callers
MaxRaceOps == 3

\* the responses the racing writers store
RaceData == {d1, dt}

\* the entry both racing callers use
RaceFingerprint == ApiFingerprint("av", "RDS")
RacePath == GetCachePath("api", GenerateCacheKey(RaceFingerprint))

\* cache_entry of cache_response
CacheEntry(cache_type, data, response, t) ==
    [response |-> response, cached_at |-> t,
     cache_key |-> GenerateCacheKey(data), cache_type |-> cache_type]

\* one part of a pickled entry; a stretch of the file no write has filled
Chunk(entry, part) == [entry |-> entry, part |-> part]
Hole == [hole |-> TRUE]

\* the parts a file holds
ChunksOf(file) ==
    CASE file.state = "ok" -> <<Chunk(file.entry, 1), Chunk(file.entry, 2)>>
      [] file.state = "partial" -> file.chunks
      [] OTHER -> <<>>

\* the file that holds the given parts
FileOf(chunks, t) ==
    IF /\ Len(chunks) = 2
       /\ \E e \in {CacheEntry("api", RaceFingerprint, r, u) : r \in RaceData, u \in {t}} :
              chunks = <<Chunk(e, 1), Chunk(e, 2)>>
    THEN [state |-> "ok", mtime |-> t, entry |-> chunks[1].entry]
    ELSE [state |-> "partial", mtime |-> t, chunks |-> chunks]

\* f.write(part) at the writer's own offset
WriteChunk(chunks, part, chunk) ==
    IF part = 1
    THEN <<chunk>> \o (IF Len(chunks) >= 2 THEN <<chunks[2]>> ELSE <<>>)
    ELSE <<IF Len(chunks) >= 1 THEN chunks[1] ELSE Hole, chunk>>

\* a value pickle.load puts together from parts of two different dumps
Torn(first, second) == [torn |-> <<first, second>>]

\* what pickle.load makes of the two parts it read: the entry, a value put
\* together from two dumps or an error (None), or an error
Unpickle(got) ==
    IF \E k \in 1..2 : "entry" \notin DOMAIN got[k] \/ got[k].part # k
    THEN {None}
    ELSE IF got[1].entry = got[2].entry
         THEN {got[1].entry}
         ELSE {Torn(got[1].entry, got[2].entry), None}

\* cache_response up to open(cache_path, 'wb'), which empties the file
CacheResponseOpen ==
    /\ nops < MaxRaceOps
    /\ \E i \in Threads, response \in RaceData :
        /\ threads[i] = NotRunning
        /\ cache' = [cache EXCEPT ![RacePath] = FileOf(<<>>, now)]
        /\ threads' = [threads EXCEPT ![i] =
                          [pc |-> "write", op |-> "cache_response", cache_type |-> "api",
                           data |-> RaceFingerprint, response |-> response, at |-> now,
                           part |-> 1]]
        /\ nops' = nops + 1
    /\ UNCHANGED <<now, temp, points, enable_vector_storage, vector_db, last>>

\* one write() of pickle.dump; after the last one the file is closed and
\* cache_response returns True
CacheResponseWrite ==
    \E i \in Threads :
        LET th == threads[i]
            entry == CacheEntry(th.cache_type, th.data, th.response, th.at)
            chunks == WriteChunk(ChunksOf(cache[RacePath]), th.part, Chunk(entry, th.part))
        IN  /\ th.pc = "write"
            /\ cache' = [cache EXCEPT ![RacePath] = FileOf(chunks, now)]
            /\ IF th.part = 1
               THEN /\ threads' = [threads EXCEPT ![i].part = 2]
                    /\ UNCHANGED last
               ELSE /\ threads' = [threads EXCEPT ![i] = NotRunning]
                    /\ last' = [op |-> "cache_response", cache_type |-> th.cache_type,
                                data |-> th.data, response |-> th.response, at |-> th.at,
                                thread |-> i, ret |-> TRUE]
            /\ UNCHANGED <<now, temp, points, enable_vector_storage, vector_db, nops>>

\* get_cached_response returns: ret to the caller
GetReturns(i, th, ret) ==
    /\ threads' = [threads EXCEPT ![i] = NotRunning]
    /\ last' = [op |-> "get_cached_response", cache_type |-> th.cache_type, data |-> th.data,
                ttl |-> th.ttl, at |-> th.at, thread |-> i, ret |-> ret, raised |-> FALSE,
                quiet |-> th.alone /\ nops = th.serial,
                pre |-> th.pre]

\* a file operation of get_cached_response raised: `except Exception: return None`
GetFails(i, th) == GetReturns(i, th, None)

\* get_cached_response up to cache_path.exists()
GetCachedResponseExists ==
    /\ nops < MaxRaceOps
    /\ \E i \in Threads :
        /\ threads[i] = NotRunning
        /\ LET th == [pc |-> "stat", op |-> "get_cached_response", cache_type |-> "api",
                      data |-> RaceFingerprint, ttl |-> NoTTL, at |-> now,
                      alone |-> \A j \in Threads \ {i} : threads[j] = NotRunning,
                      serial |-> nops + 1,
                      pre |-> [file |-> cache[RacePath]]]
           IN  IF cache[RacePath].state = "missing"
               THEN /\ threads' = threads
                    /\ last' = [op |-> "get_cached_response", cache_type |-> th.cache_type,
                                data |-> th.data, ttl |-> th.ttl, at |-> th.at, thread |-> i,
                                ret |-> None, raised |-> FALSE, quiet |-> th.alone,
                                pre |-> th.pre]
               ELSE /\ threads' = [threads EXCEPT ![i] = th]
                    /\ UNCHANGED last
    /\ nops' = nops + 1
    /\ UNCHANGED <<now, cache, temp, points, enable_vector_storage, vector_db>>

\* cache_path.stat() and the age test of _is_cache_valid; a file that has gone
\* since exists() makes stat() raise
GetCachedResponseStat ==
    /\ \E i \in Threads :
        LET th == threads[i]
        IN  /\ th.pc = "stat"
            /\ IF cache[RacePath].state = "missing"
               THEN GetFails(i, th)
               ELSE IF IsCacheValid(cache, now, RacePath, OrDefault(th.ttl))
                    THEN threads' = [threads EXCEPT ![i].pc = "open"] /\ UNCHANGED last
                    ELSE GetReturns(i, th, None)
    /\ UNCHANGED <<now, cache, temp, points, enable_vector_storage, vector_db, nops>>

\* open(cache_path, 'rb'); the descriptor keeps the file if it is unlinked
GetCachedResponseOpen ==
    /\ \E i \in Threads :
        LET th == threads[i]
        IN  /\ th.pc = "open"
            /\ IF cache[RacePath].state = "missing"
               THEN GetFails(i, th)
               ELSE /\ threads' = [threads EXCEPT ![i] =
                                      [th EXCEPT !.pc = "read"] @@
                                      [got |-> <<>>, fd |-> ChunksOf(cache[RacePath])]]
                    /\ UNCHANGED last
    /\ UNCHANGED <<now, cache, temp, points, enable_vector_storage, vector_db, nops>>

\* one read of pickle.load; after the last one the value is built and returned,
\* and an end of file or a damaged part makes the load raise
GetCachedResponseRead ==
    /\ \E i \in Threads :
        LET th == threads[i]
            chunks == IF cache[RacePath].state = "missing" THEN th.fd
                      ELSE ChunksOf(cache[RacePath])
            k == Len(th.got) + 1
        IN  /\ th.pc = "read"
            /\ IF Len(chunks) < k
               THEN GetFails(i, th)
               ELSE IF k = 1
                    THEN /\ threads' = [threads EXCEPT ![i].got = <<chunks[1]>>]
                         /\ UNCHANGED last
                    ELSE \E ret \in Unpickle(Append(th.got, chunks[2])) :
                            GetReturns(i, th, ret)
    /\ UNCHANGED <<now, cache, temp, points, enable_vector_storage, vector_db, nops>>

\* two threads putting and getting one cache entry
NextRace ==
    \/ CacheResponseOpen
    \/ CacheResponseWrite
    \/ GetCachedResponseExists
    \/ GetCachedResponseStat
    \/ GetCachedResponseOpen
    \/ GetCachedResponseRead

SpecRace == Init /\ [][NextRace]_vars

---------------------------------------------------------------------------
(* Claims about racing callers *)

\* the entries the racing writers dump
RaceEntries == {CacheEntry("api", RaceFingerprint, r, 0) : r \in RaceData}

\* C21: when two writers put the same namespace and fingerprint concurrently,
\* a get made after both have completed returns an entry whose response is
\* that of one of the writers; the key never holds a mixture of both writes
\* or an unreadable entry.
C21_LastWriteWins ==
    ( /\ last.op = "get_cached_response"
      /\ "quiet" \in DOMAIN last
      /\ last.quiet
      /\ last.pre.file.state # "missing" )
    => last.ret \in RaceEntries

\* C22: a get that runs while a put overwrites the same entry never returns a
\* partially written value: it returns the complete previous value, the
\* complete new value, or absent.
C22_NoTornRead ==
    ( /\ last.op = "get_cached_response"
      /\ "quiet" \in DOMAIN last
      /\ last.pre.file.state = "ok" )
    => \/ last.ret = None
       \/ last.ret = last.pre.file.entry
       \/ last.ret \in RaceEntries

---------------------------------------------------------------------------
(* Sweeps running beside other callers.  The directories hold files left by
   earlier calls; nothing is written meanwhile, and a file operation fails
   only when the file has gone. *)

\* the entry of reports/ the sweeps find
SweepReportPath == GetCachePath("reports", GenerateCacheKey(ReportFingerprint("RDS")))

\* a cache file written DefaultTTL seconds ago, and one written just now
OldCacheFile(cache_type, data, t) ==
    [state |-> "ok", mtime |-> t - DefaultTTL,
     entry |-> CacheEntry(cache_type, data, d1, t - DefaultTTL)]
NewCacheFile(cache_type, data, t) ==
    [state |-> "ok", mtime |-> t, entry |-> CacheEntry(cache_type, data, dt, t)]

\* temp records of ("RDS", "av"): one stored with ttl 1 DefaultTTL seconds
\* ago, one stored just now
SweepRecords(t) ==
    StoreApiResponse(StoreApiResponse({}, t - DefaultTTL, "RDS", "av", d1, 1, "ok"),
                     t, "RDS", "av", dt, NoTTL, "ok")

\* the storage as CacheManager and TempStorage find it when constructed over
\* directories that earlier calls have filled
InitSweep ==
    /\ now = DefaultTTL
    /\ \E api_file \in {NoFile, OldCacheFile("api", RaceFingerprint, now),
                        NewCacheFile("api", RaceFingerprint, now)},
          report_file \in {NoFile, OldCacheFile("reports", ReportFingerprint("RDS"), now)} :
        cache = [p \in CachePaths |->
                    IF p = RacePath THEN api_file
                    ELSE IF p = SweepReportPath THEN report_file ELSE NoFile]
    /\ temp \in SUBSET SweepRecords(now)
    /\ points = {}
    /\ enable_vector_storage = TRUE
    /\ vector_db = TRUE
    /\ last = Idle
    /\ nops = 0
    /\ threads = [i \in Threads |-> NotRunning]

\* the calls that unlink files
Deleting == {"cleanup_expired_data", "invalidate_cache"}

\* thread i enters a deleting call: the calls it overlaps with are marked
Overlap(i, th) ==
    [j \in Threads |->
        IF j = i THEN th
        ELSE IF "contended" \in DOMAIN threads[j]
             THEN [threads[j] EXCEPT !.contended = TRUE]
             ELSE threads[j]]

CacheDirs == <<"llm", "api", "reports">>
TempDirs == <<"api_responses", "reports", "embeddings">>

\* cleanup_expired_data enters cleanup_expired_cache
CleanupStart ==
    /\ nops < MaxRaceOps
    /\ \E i \in Threads :
        /\ threads[i] = NotRunning
        /\ threads' = Overlap(i, [pc |-> "cache_glob", op |-> "cleanup_expired_data",
                                  at |-> now, dirs |-> CacheDirs, todo |-> {}, cur |-> None,
                                  ttl |-> 0, cache_removed |-> 0, temp_removed |-> 0,
                                  unlinked_cache |-> {}, unlinked_temp |-> {},
                                  contended |-> \E j \in Threads \ {i} :
                                                   /\ threads[j] # NotRunning
                                                   /\ threads[j].op \in Deleting,
                                  pre |-> [cache |-> cache, temp |-> temp]])
    /\ nops' = nops + 1
    /\ UNCHANGED <<now, cache, temp, points, enable_vector_storage, vector_db, last>>

\* the loops of the cache sweep move on
AfterCacheDir(th) ==
    IF Len(th.dirs) > 1
    THEN [th EXCEPT !.pc = "cache_glob", !.dirs = Tail(@)]
    ELSE [th EXCEPT !.pc = "temp_glob", !.dirs = TempDirs]

AfterCacheFile(th) ==
    IF th.todo # {} THEN [th EXCEPT !.pc = "cache_exists"] ELSE AfterCacheDir(th)

\* the loops of the temp sweep move on
AfterTempDir(th) ==
    IF Len(th.dirs) > 1
    THEN [th EXCEPT !.pc = "temp_glob", !.dirs = Tail(@)]
    ELSE [th EXCEPT !.pc = "return"]

AfterTempFile(th) ==
    IF th.todo # {} THEN [th EXCEPT !.pc = "temp_read"] ELSE AfterTempDir(th)

\* cleanup_expired_data returns, or raises
CleanupEnds(i, th, raised) ==
    /\ threads' = [threads EXCEPT ![i] = NotRunning]
    /\ last' = [op |-> "cleanup_expired_data", thread |-> i, at |-> th.at,
                raised |-> raised,
                ret |-> IF raised THEN None
                        ELSE [cache_files_removed |-> th.cache_removed,
                              temp_files_removed |-> th.temp_removed],
                unlinked_cache |-> th.unlinked_cache, unlinked_temp |-> th.unlinked_temp,
                contended |-> th.contended, pre |-> th.pre]

\* cache_file.stat() of _is_cache_valid raises in cleanup_expired_cache, outside
\* its try: the exception leaves cleanup_expired_data
CleanupStatFails(i, th) == CleanupEnds(i, th, TRUE)

\* cache_path.glob("*.cache") lists one directory of the cache
CleanupCacheGlob ==
    /\ \E i \in Threads :
        LET th == threads[i]
            files == {p \in CachePaths : p[1] = Head(th.dirs) /\ cache[p].state # "missing"}
        IN  /\ th.pc = "cache_glob"
            /\ threads' = [threads EXCEPT ![i] = AfterCacheFile([th EXCEPT !.todo = files])]
    /\ UNCHANGED <<now, cache, temp, points, enable_vector_storage, vector_db, last, nops>>

\* cache_path.exists() of _is_cache_valid for the next listed file; a file that
\* has gone is not valid, and the sweep goes on to unlink it
CleanupCacheExists ==
    /\ \E i \in Threads :
        LET th == threads[i]
        IN  /\ th.pc = "cache_exists"
            /\ \E p \in th.todo :
                threads' = [threads EXCEPT ![i] =
                    [th EXCEPT !.cur = p, !.todo = @ \ {p},
                               !.pc = IF cache[p].state = "missing"
                                      THEN "cache_unlink" ELSE "cache_stat"]]
    /\ UNCHANGED <<now, cache, temp, points, enable_vector_storage, vector_db, last, nops>>

\* cache_path.stat() and the age test of _is_cache_valid
CleanupCacheStat ==
    /\ \E i \in Threads :
        LET th == threads[i]
        IN  /\ th.pc = "cache_stat"
            /\ IF cache[th.cur].state = "missing"
               THEN CleanupStatFails(i, th)
               ELSE /\ threads' = [threads EXCEPT ![i] =
                           IF IsCacheValid(cache, now, th.cur, DefaultTTL)
                           THEN AfterCacheFile(th)
                           ELSE [th EXCEPT !.pc = "cache_unlink"]]
                    /\ UNCHANGED last
    /\ UNCHANGED <<now, cache, temp, points, enable_vector_storage, vector_db, nops>>

\* cache_file.unlink() inside the try of the cache sweep
CleanupCacheUnlink ==
    /\ \E i \in Threads :
        LET th == threads[i]
        IN  /\ th.pc = "cache_unlink"
            /\ IF cache[th.cur].state = "missing"
               THEN /\ threads' = [threads EXCEPT ![i] = AfterCacheFile(th)]
                    /\ UNCHANGED cache
               ELSE /\ cache' = [cache EXCEPT ![th.cur] = NoFile]
                    /\ threads' = [threads EXCEPT ![i] =
                           AfterCacheFile([th EXCEPT !.cache_removed = @ + 1,
                                                     !.unlinked_cache = @ \cup {th.cur}])]
    /\ UNCHANGED <<now, temp, points, enable_vector_storage, vector_db, last, nops>>

\* dir_path.glob("*.json") lists one directory of TempStorage
CleanupTempGlob ==
    /\ \E i \in Threads :
        LET th == threads[i]
            files == {f \in temp : f.dir = Head(th.dirs)}
        IN  /\ th.pc = "temp_glob"
            /\ threads' = [threads EXCEPT ![i] = AfterTempFile([th EXCEPT !.todo = files])]
    /\ UNCHANGED <<now, cache, temp, points, enable_vector_storage, vector_db, last, nops>>

\* open and json.load of the next listed file, for its ttl; a file that has
\* gone or does not parse raises, and the sweep passes on to the next file
CleanupTempRead ==
    /\ \E i \in Threads :
        LET th == threads[i]
        IN  /\ th.pc = "temp_read"
            /\ \E f \in th.todo :
                threads' = [threads EXCEPT ![i] =
                    IF f \in temp /\ f.state = "ok"
                    THEN [th EXCEPT !.cur = f, !.todo = @ \ {f}, !.ttl = f.content.ttl,
                                    !.pc = "temp_stat"]
                    ELSE AfterTempFile([th EXCEPT !.todo = @ \ {f}])]
    /\ UNCHANGED <<now, cache, temp, points, enable_vector_storage, vector_db, last, nops>>

\* file_path.stat() and the age test of the temp sweep
CleanupTempStat ==
    /\ \E i \in Threads :
        LET th == threads[i]
        IN  /\ th.pc = "temp_stat"
            /\ threads' = [threads EXCEPT ![i] =
                   IF th.cur \in temp /\ now - th.cur.mtime > th.ttl
                   THEN [th EXCEPT !.pc = "temp_unlink"]
                   ELSE AfterTempFile(th)]
    /\ UNCHANGED <<now, cache, temp, points, enable_vector_storage, vector_db, last, nops>>

\* file_path.unlink() of the temp sweep
CleanupTempUnlink ==
    /\ \E i \in Threads :
        LET th == threads[i]
        IN  /\ th.pc = "temp_unlink"
            /\ IF th.cur \in temp
               THEN /\ temp' = temp \ {th.cur}
                    /\ threads' = [threads EXCEPT ![i] =
                           AfterTempFile([th EXCEPT !.temp_removed = @ + 1,
                                                    !.unlinked_temp = @ \cup {th.cur}])]
               ELSE /\ threads' = [threads EXCEPT ![i] = AfterTempFile(th)]
                    /\ UNCHANGED temp
    /\ UNCHANGED <<now, cache, points, enable_vector_storage, vector_db, last, nops>>

\* cleanup_expired_data returns its counts
CleanupReturn ==
    /\ \E i \in Threads :
        /\ threads[i].pc = "return"
        /\ CleanupEnds(i, threads[i], FALSE)
    /\ UNCHANGED <<now, cache, temp, points, enable_vector_storage, vector_db, nops>>

\* invalidate_cache returns
InvalidateEnds(i, th, ret) ==
    /\ threads' = [threads EXCEPT ![i] = NotRunning]
    /\ last' = [op |-> "invalidate_cache", thread |-> i, at |-> th.at, raised |-> FALSE,
                ret |-> ret, unlinked_cache |-> IF ret THEN {RacePath} ELSE {},
                unlinked_temp |-> {},
                contended |-> th.contended, pre |-> th.pre]

\* invalidate_cache up to cache_path.exists()
InvalidateCacheExists ==
    /\ nops < MaxRaceOps
    /\ \E i \in Threads :
        /\ threads[i] = NotRunning
        /\ LET th == [pc |-> "invalidate_unlink", op |-> "invalidate_cache", at |-> now,
                      contended |-> \E j \in Threads \ {i} :
                                       /\ threads[j] # NotRunning
                                       /\ threads[j].op \in Deleting,
                      pre |-> [cache |-> cache, temp |-> temp]]
           IN  IF cache[RacePath].state = "missing"
               THEN /\ threads' = Overlap(i, NotRunning)
                    /\ last' = [op |-> "invalidate_cache", thread |-> i, at |-> now,
                                raised |-> FALSE, ret |-> FALSE,
                                unlinked_cache |-> {}, unlinked_temp |-> {},
                                contended |-> th.contended, pre |-> th.pre]
               ELSE /\ threads' = Overlap(i, th)
                    /\ UNCHANGED last
    /\ nops' = nops + 1
    /\ UNCHANGED <<now, cache, temp, points, enable_vector_storage, vector_db>>

\* cache_path.unlink() of invalidate_cache; a file that has gone makes it
\* raise, which invalidate_cache answers with False
InvalidateCacheUnlink ==
    /\ \E i \in Threads :
        LET th == threads[i]
        IN  /\ th.pc = "invalidate_unlink"
            /\ IF cache[RacePath].state = "missing"
               THEN InvalidateEnds(i, th, FALSE) /\ UNCHANGED cache
               ELSE InvalidateEnds(i, th, TRUE) /\ cache' = [cache EXCEPT ![RacePath] = NoFile]
    /\ UNCHANGED <<now, temp, points, enable_vector_storage, vector_db, nops>>

\* get_api_response returns: ret to the caller
TempGetReturns(i, th, ret) ==
    /\ threads' = [threads EXCEPT ![i] = NotRunning]
    /\ last' = [op |-> "get_api_response", ticker |-> th.ticker, api_name |-> th.api_name,
                max_age |-> th.max_age, at |-> th.at, thread |-> i, ret |-> ret,
                raised |-> FALSE, pre |-> th.pre]

\* a get_api_response that returns from its handler raising instead
TempGetFailsRaising(i, th) ==
    /\ threads' = [threads EXCEPT ![i] = NotRunning]
    /\ last' = [op |-> "get_api_response", ticker |-> th.ticker, api_name |-> th.api_name,
                max_age |-> th.max_age, at |-> th.at, thread |-> i, ret |-> None,
                raised |-> TRUE, pre |-> th.pre]

\* `except Exception: return None` of get_api_response
TempGetFails(i, th) == TempGetReturns(i, th, None)

\* get_api_response up to list(api_dir.glob(pattern))
GetApiResponseGlob ==
    /\ nops < MaxRaceOps
    /\ \E i \in Threads, max_age \in {NoTTL, 1} :
        /\ threads[i] = NotRunning
        /\ LET files == Glob(temp, "api_responses", ApiFileName("RDS", "av"))
               th == [pc |-> "temp_max", op |-> "get_api_response", ticker |-> "RDS",
                      api_name |-> "av", max_age |-> max_age, at |-> now,
                      files |-> files, latest_file |-> None, pre |-> [temp |-> temp]]
           IN  IF files = {}
               THEN /\ threads' = threads
                    /\ last' = [op |-> "get_api_response", ticker |-> th.ticker,
                                api_name |-> th.api_name, max_age |-> max_age, at |-> now,
                                thread |-> i, ret |-> None, raised |-> FALSE, pre |-> th.pre]
               ELSE /\ threads' = [threads EXCEPT ![i] = th]
                    /\ UNCHANGED last
    /\ nops' = nops + 1
    /\ UNCHANGED <<now, cache, temp, points, enable_vector_storage, vector_db>>

\* max(files, key=lambda f: f.stat().st_mtime): stat() of a listed file that
\* has gone raises, which get_api_response answers with None
GetApiResponseMax ==
    /\ \E i \in Threads :
        LET th == threads[i]
        IN  /\ th.pc = "temp_max"
            /\ IF th.files \subseteq temp
               THEN /\ \E f \in LatestFiles(th.files) :
                        threads' = [threads EXCEPT ![i] =
                            [th EXCEPT !.latest_file = f,
                                       !.pc = IF th.max_age = NoTTL THEN "temp_ttl"
                                              ELSE "temp_age"]]
                    /\ UNCHANGED last
               ELSE TempGetFails(i, th)
    /\ UNCHANGED <<now, cache, temp, points, enable_vector_storage, vector_db, nops>>

\* the first open and json.load, for the stored ttl
GetApiResponseTtl ==
    /\ \E i \in Threads :
        LET th == threads[i]
        IN  /\ th.pc = "temp_ttl"
            /\ IF th.latest_file \in temp /\ th.latest_file.state = "ok"
               THEN /\ threads' = [threads EXCEPT ![i] =
                           [th EXCEPT !.max_age = th.latest_file.content.ttl,
                                      !.pc = "temp_age"]]
                    /\ UNCHANGED last
               ELSE TempGetFails(i, th)
    /\ UNCHANGED <<now, cache, temp, points, enable_vector_storage, vector_db, nops>>

\* latest_file.stat() and the age test
GetApiResponseAge ==
    /\ \E i \in Threads :
        LET th == threads[i]
        IN  /\ th.pc = "temp_age"
            /\ IF th.latest_file \notin temp
               THEN TempGetFails(i, th)
               ELSE IF now - th.latest_file.mtime <= th.max_age
                    THEN /\ threads' = [threads EXCEPT ![i].pc = "temp_load"]
                         /\ UNCHANGED last
                    ELSE TempGetReturns(i, th, None)
    /\ UNCHANGED <<now, cache, temp, points, enable_vector_storage, vector_db, nops>>

\* the second open and json.load, and return stored_data["data"]
GetApiResponseLoad ==
    /\ \E i \in Threads :
        LET th == threads[i]
        IN  /\ th.pc = "temp_load"
            /\ IF th.latest_file \in temp /\ th.latest_file.state = "ok"
               THEN TempGetReturns(i, th, th.latest_file.content.data)
               ELSE TempGetFails(i, th)
    /\ UNCHANGED <<now, cache, temp, points, enable_vector_storage, vector_db, nops>>

\* sweeps, invalidations and reads in two threads
NextSweep ==
    \/ CleanupStart
    \/ CleanupCacheGlob
    \/ CleanupCacheExists
    \/ CleanupCacheStat
    \/ CleanupCacheUnlink
    \/ CleanupTempGlob
    \/ CleanupTempRead
    \/ CleanupTempStat
    \/ CleanupTempUnlink
    \/ CleanupReturn
    \/ InvalidateCacheExists
    \/ InvalidateCacheUnlink
    \/ GetCachedResponseExists
    \/ GetCachedResponseStat
    \/ GetCachedResponseOpen
    \/ GetCachedResponseRead
    \/ GetApiResponseGlob
    \/ GetApiResponseMax
    \/ GetApiResponseTtl
    \/ GetApiResponseAge
    \/ GetApiResponseLoad

SpecSweep == InitSweep /\ [][NextSweep]_vars

---------------------------------------------------------------------------
(* Claims about sweeps beside other callers *)

\* the value get_api_response answers with when nothing disturbs it
StoredAtStart ==
    LET files == Glob(last.pre.temp, "api_responses", ApiFileName(last.ticker, last.api_name))
    IN  {f.content.data : f \in LatestFiles(files)}

\* C23: a get_cached_response or get_api_response that runs beside
\* cleanup_expired_data returns the value that was stored or None and does not
\* raise, and a cleanup_expired_data that ran beside reads only does not raise.
C23_ReadsBesideCleanup ==
    /\ last.op = "get_cached_response"
       => /\ ~last.raised
          /\ \/ last.ret = None
             \/ last.pre.file.state = "ok" /\ last.ret = last.pre.file.entry
    /\ last.op = "get_api_response"
       => /\ ~last.raised
          /\ last.ret = None \/ last.ret \in StoredAtStart
    /\ (last.op = "cleanup_expired_data" /\ ~last.contended) => ~last.raised

\* a get_api_response whose newest record was in date found a listed file
\* swept before it could read it
C23_Witness ==
    /\ last.op = "get_api_response"
    /\ last.max_age = NoTTL
    /\ \E f \in last.pre.temp : f.mtime = last.at
    /\ \E f \in last.pre.temp : f \notin temp
    /\ last.ret = None
    /\ ~last.raised

\* C29: concurrent cleanup_expired_data and invalidate_cache calls do not
\* raise, no file is counted by two of them, and each returns the number of
\* files it removed itself.
C29_ConcurrentSweeps ==
    /\ last.op \in Deleting => ~last.raised
    /\ (last.op = "cleanup_expired_data" /\ ~last.raised)
       => /\ last.ret.cache_files_removed = Cardinality(last.unlinked_cache)
          /\ last.ret.temp_files_removed = Cardinality(last.unlinked_temp)

====
